---- MODULE Spec2Model ----
(***************************************************************************)
(* A model of the termion back end of text-style (src/src/termion.rs):     *)
(* the attribute-to-sequence mapper (get_fg, get_bg, get_ansi_fg,          *)
(* get_ansi_bg, get_effect), the Display implementation of TermionStr and  *)
(* the two writers render and render_iter.                                 *)
(*                                                                         *)
(* A byte string is a sequence of one-character strings; the escape byte   *)
(* 0x1b is the element ESC.  An Option is a sequence of length 0 (None) or *)
(* 1 (Some).                                                               *)
(***************************************************************************)
EXTENDS Integers, Sequences, FiniteSets, TLC

VARIABLES
    call,      \* the entry point being executed: "none", "render", "render_iter"
    input,     \* the styled strings handed to the current call
    pos,       \* how many items of input the current call has taken
    pc,        \* position in the code of the current call
    eidx,      \* how many effects the loop of fmt has taken from style.effects.iter()
    sink,      \* the bytes the writer w holds
    writes,    \* the write_str calls made on w so far, oldest first
    result,    \* what the last call returned: "none", "Ok", "Err"
    hist,      \* the items fmt was entered for, over all calls, oldest first
    base,      \* the length of sink when the current call began
    mapArgs,   \* the arguments of a mapper call
    mapOut     \* the values the mapper returned for them

vars == <<call, input, pos, pc, eidx, sink, writes, result, hist, base, mapArgs, mapOut>>

renderVars == <<call, input, pos, pc, eidx, sink, writes, result, hist, base>>
mapVars == <<mapArgs, mapOut>>

(***************************************************************************)
(* Bounds of the model.                                                    *)
(***************************************************************************)
MaxItems == 3     \* items rendered over all calls of one behaviour
MaxComp == 5      \* how many of the sample component values an Rgb draws from

\* Component values of an Rgb colour: one, two and three decimal digits.
CompSample == <<0, 255, 9, 10, 123, 1, 12, 100, 99>>
Comps == {CompSample[k] : k \in 1..MaxComp}

(***************************************************************************)
(* Bytes and options.                                                      *)
(***************************************************************************)
ESC == "ESC"
None == <<>>
Some(x) == <<x>>

RECURSIVE Flatten(_)
Flatten(ss) == IF ss = <<>> THEN <<>> ELSE Head(ss) \o Flatten(Tail(ss))

DigitChar == <<"0", "1", "2", "3", "4", "5", "6", "7", "8", "9">>

\* Display of an unsigned integer: its decimal digits, no padding.
RECURSIVE Dec(_)
Dec(n) == IF n < 10 THEN <<DigitChar[n + 1]>>
          ELSE Dec(n \div 10) \o <<DigitChar[(n % 10) + 1]>>

(***************************************************************************)
(* The literals of termion that the module uses.                           *)
(***************************************************************************)
csi(body) == <<ESC, "[">> \o body

\* termion::color: each named colour is an index into the 256 colour palette.
TermionColors == {"Black", "Red", "Green", "Yellow", "Blue", "Magenta", "Cyan", "White",
                  "LightBlack", "LightRed", "LightGreen", "LightYellow", "LightBlue",
                  "LightMagenta", "LightCyan", "LightWhite"}
TermionIndex == [Black |-> 0, Red |-> 1, Green |-> 2, Yellow |-> 3, Blue |-> 4,
                 Magenta |-> 5, Cyan |-> 6, White |-> 7,
                 LightBlack |-> 8, LightRed |-> 9, LightGreen |-> 10, LightYellow |-> 11,
                 LightBlue |-> 12, LightMagenta |-> 13, LightCyan |-> 14, LightWhite |-> 15]

fg_str(c) == csi(<<"3", "8", ";", "5", ";">> \o Dec(TermionIndex[c]) \o <<"m">>)
bg_str(c) == csi(<<"4", "8", ";", "5", ";">> \o Dec(TermionIndex[c]) \o <<"m">>)

\* termion::color::Rgb(r, g, b).fg_string() and .bg_string().
fg_string(r, g, b) ==
    csi(<<"3", "8", ";", "2", ";">> \o Dec(r) \o <<";">> \o Dec(g) \o <<";">> \o Dec(b) \o <<"m">>)
bg_string(r, g, b) ==
    csi(<<"4", "8", ";", "2", ";">> \o Dec(r) \o <<";">> \o Dec(g) \o <<";">> \o Dec(b) \o <<"m">>)

\* termion::style.
style_Bold == csi(<<"1", "m">>)
style_Italic == csi(<<"3", "m">>)
style_Underline == csi(<<"4", "m">>)
style_Reset == csi(<<"m">>)

(***************************************************************************)
(* The value types of the crate (crate::{AnsiColor, AnsiMode, Color,       *)
(* Effect, Style}).                                                        *)
(***************************************************************************)
AnsiColor == {"Black", "Red", "Green", "Yellow", "Blue", "Magenta", "Cyan", "White"}
AnsiMode == {"Dark", "Light"}
Effect == {"Bold", "Italic", "Underline"}

Ansi(color, mode) == [tag |-> "Ansi", color |-> color, mode |-> mode, r |-> 0, g |-> 0, b |-> 0]
Rgb(r, g, b) == [tag |-> "Rgb", color |-> "Black", mode |-> "Dark", r |-> r, g |-> g, b |-> b]

\* The order in which Effects::iter yields the effects of a set.
EffectOrder == <<"Bold", "Italic", "Underline">>
EffectsIter(effects) == SelectSeq(EffectOrder, LAMBDA e : e \in effects)

(***************************************************************************)
(* The attribute-to-sequence mapper.                                       *)
(***************************************************************************)
get_ansi_bg(color, mode) ==
    CASE mode = "Dark" /\ color = "Black" -> bg_str("Black")
      [] mode = "Dark" /\ color = "Red" -> bg_str("Red")
      [] mode = "Dark" /\ color = "Green" -> bg_str("Green")
      [] mode = "Dark" /\ color = "Yellow" -> bg_str("Yellow")
      [] mode = "Dark" /\ color = "Blue" -> bg_str("Blue")
      [] mode = "Dark" /\ color = "Magenta" -> bg_str("Magenta")
      [] mode = "Dark" /\ color = "Cyan" -> bg_str("Cyan")
      [] mode = "Dark" /\ color = "White" -> bg_str("White")
      [] mode = "Light" /\ color = "Black" -> bg_str("LightBlack")
      [] mode = "Light" /\ color = "Red" -> bg_str("LightRed")
      [] mode = "Light" /\ color = "Green" -> bg_str("LightGreen")
      [] mode = "Light" /\ color = "Yellow" -> bg_str("LightYellow")
      [] mode = "Light" /\ color = "Blue" -> bg_str("LightBlue")
      [] mode = "Light" /\ color = "Magenta" -> bg_str("LightMagenta")
      [] mode = "Light" /\ color = "Cyan" -> bg_str("LightCyan")
      [] mode = "Light" /\ color = "White" -> bg_str("LightWhite")

\* get_bg with the foreground escape of an Rgb colour.
get_bg_fgRgb(color) ==
    CASE color.tag = "Ansi" -> get_ansi_bg(color.color, color.mode)
      [] color.tag = "Rgb" -> fg_string(color.r, color.g, color.b)

get_bg(color) ==
    CASE color.tag = "Ansi" -> get_ansi_bg(color.color, color.mode)
      [] color.tag = "Rgb" -> bg_string(color.r, color.g, color.b)

\* get_ansi_fg with the arm of (Light, Red) returning the dark red.
get_ansi_fg_lightRed(color, mode) ==
    CASE mode = "Dark" /\ color = "Black" -> fg_str("Black")
      [] mode = "Dark" /\ color = "Red" -> fg_str("Red")
      [] mode = "Dark" /\ color = "Green" -> fg_str("Green")
      [] mode = "Dark" /\ color = "Yellow" -> fg_str("Yellow")
      [] mode = "Dark" /\ color = "Blue" -> fg_str("Blue")
      [] mode = "Dark" /\ color = "Magenta" -> fg_str("Magenta")
      [] mode = "Dark" /\ color = "Cyan" -> fg_str("Cyan")
      [] mode = "Dark" /\ color = "White" -> fg_str("White")
      [] mode = "Light" /\ color = "Black" -> fg_str("LightBlack")
      [] mode = "Light" /\ color = "Red" -> fg_str("Red")
      [] mode = "Light" /\ color = "Green" -> fg_str("LightGreen")
      [] mode = "Light" /\ color = "Yellow" -> fg_str("LightYellow")
      [] mode = "Light" /\ color = "Blue" -> fg_str("LightBlue")
      [] mode = "Light" /\ color = "Magenta" -> fg_str("LightMagenta")
      [] mode = "Light" /\ color = "Cyan" -> fg_str("LightCyan")
      [] mode = "Light" /\ color = "White" -> fg_str("LightWhite")

get_ansi_fg(color, mode) ==
    CASE mode = "Dark" /\ color = "Black" -> fg_str("Black")
      [] mode = "Dark" /\ color = "Red" -> fg_str("Red")
      [] mode = "Dark" /\ color = "Green" -> fg_str("Green")
      [] mode = "Dark" /\ color = "Yellow" -> fg_str("Yellow")
      [] mode = "Dark" /\ color = "Blue" -> fg_str("Blue")
      [] mode = "Dark" /\ color = "Magenta" -> fg_str("Magenta")
      [] mode = "Dark" /\ color = "Cyan" -> fg_str("Cyan")
      [] mode = "Dark" /\ color = "White" -> fg_str("White")
      [] mode = "Light" /\ color = "Black" -> fg_str("LightBlack")
      [] mode = "Light" /\ color = "Red" -> fg_str("LightRed")
      [] mode = "Light" /\ color = "Green" -> fg_str("LightGreen")
      [] mode = "Light" /\ color = "Yellow" -> fg_str("LightYellow")
      [] mode = "Light" /\ color = "Blue" -> fg_str("LightBlue")
      [] mode = "Light" /\ color = "Magenta" -> fg_str("LightMagenta")
      [] mode = "Light" /\ color = "Cyan" -> fg_str("LightCyan")
      [] mode = "Light" /\ color = "White" -> fg_str("LightWhite")

get_fg(color) ==
    CASE color.tag = "Ansi" -> get_ansi_fg(color.color, color.mode)
      [] color.tag = "Rgb" -> fg_string(color.r, color.g, color.b)

\* get_effect with the arm of Italic returning Bold.
get_effect_italicBold(effect) ==
    CASE effect = "Bold" -> style_Bold
      [] effect = "Italic" -> style_Bold
      [] effect = "Underline" -> style_Underline

get_effect(effect) ==
    CASE effect = "Bold" -> style_Bold
      [] effect = "Italic" -> style_Italic
      [] effect = "Underline" -> style_Underline

(***************************************************************************)
(* The styled strings the calls are given.                                 *)
(***************************************************************************)
Style(fg, bg, effects) == [fg |-> fg, bg |-> bg, effects |-> effects]
StyledStr(s, style) == [s |-> s, style |-> style]

SampleColors == {Ansi("Red", "Dark"), Ansi("Cyan", "Light"), Rgb(255, 0, 9)}
OptColors == {None} \cup {Some(c) : c \in SampleColors}
Styles == {Style(fg, bg, effects) : fg \in OptColors, bg \in OptColors, effects \in SUBSET Effect}
OptStyles == {None} \cup {Some(st) : st \in Styles}

\* Raw strings: empty, plain text, and text that itself holds escape sequences.
RawStrings == {<<>>, <<"a">>, <<"a", " ", "b">>, <<ESC, "[", "1", "m">>, <<"x", ESC, "[", "m">>}
Items == {StyledStr(s, style) : s \in RawStrings, style \in OptStyles}

\* The styled strings of the runs of several calls and several items.
IterItems == {StyledStr(<<"a">>, Some(Style(None, None, {"Bold"}))),
              StyledStr(<<" ">>, None),
              StyledStr(<<"b">>, Some(Style(None, None, {"Italic"}))),
              StyledStr(<<"a">>, Some(Style(None, None, {}))),
              StyledStr(<<"b">>, Some(Style(Some(Ansi("Red", "Dark")), Some(Rgb(255, 0, 9)),
                                            {"Italic", "Underline"}))),
              StyledStr(<<ESC, "[", "1", "m">>, None),
              StyledStr(<<"x", ESC, "[", "m">>, Some(Style(Some(Rgb(9, 10, 0)), None, {})))}

RECURSIVE SeqsUpTo(_, _)
SeqsUpTo(S, n) ==
    IF n = 0 THEN {<<>>}
    ELSE LET shorter == SeqsUpTo(S, n - 1)
         IN shorter \cup {Append(q, x) : q \in {r \in shorter : Len(r) = n - 1}, x \in S}

(***************************************************************************)
(* The writer w.  write_str hands one piece to write_all, which either     *)
(* writes all of it or fails after writing a proper prefix of it; the      *)
(* failure ends the call with the error.                                   *)
(***************************************************************************)
WriteRec(site, bytes, ok) == [item |-> Len(hist), site |-> site, bytes |-> bytes, ok |-> ok]

\* write_str whose error is dropped: the call goes on with the next piece.
write_str_ignoreErr(site, bytes, nextpc, nexteidx) ==
    \/ /\ sink' = sink \o bytes
       /\ writes' = Append(writes, WriteRec(site, bytes, TRUE))
       /\ pc' = nextpc
       /\ eidx' = nexteidx
       /\ UNCHANGED <<call, input, pos, result, hist, base, mapVars>>
    \/ \E k \in 0..(IF Len(bytes) = 0 THEN 0 ELSE Len(bytes) - 1) :
          /\ sink' = sink \o SubSeq(bytes, 1, k)
          /\ writes' = Append(writes, WriteRec(site, SubSeq(bytes, 1, k), FALSE))
          /\ pc' = nextpc
          /\ eidx' = nexteidx
          /\ UNCHANGED <<call, input, pos, result, hist, base, mapVars>>

\* write_str whose error is noted while the loop of render_iter goes on.
write_str_loopOn(site, bytes, nextpc, nexteidx) ==
    \/ /\ sink' = sink \o bytes
       /\ writes' = Append(writes, WriteRec(site, bytes, TRUE))
       /\ pc' = nextpc
       /\ eidx' = nexteidx
       /\ UNCHANGED <<call, input, pos, result, hist, base, mapVars>>
    \/ \E k \in 0..(IF Len(bytes) = 0 THEN 0 ELSE Len(bytes) - 1) :
          /\ sink' = sink \o SubSeq(bytes, 1, k)
          /\ writes' = Append(writes, WriteRec(site, SubSeq(bytes, 1, k), FALSE))
          /\ pc' = IF call = "render_iter" /\ pos < Len(input) THEN "next" ELSE "idle"
          /\ result' = "Err"
          /\ eidx' = nexteidx
          /\ UNCHANGED <<call, input, pos, hist, base, mapVars>>

write_str(site, bytes, nextpc, nexteidx) ==
    \/ /\ sink' = sink \o bytes
       /\ writes' = Append(writes, WriteRec(site, bytes, TRUE))
       /\ pc' = nextpc
       /\ eidx' = nexteidx
       /\ UNCHANGED <<call, input, pos, result, hist, base, mapVars>>
    \/ \E k \in 0..(IF Len(bytes) = 0 THEN 0 ELSE Len(bytes) - 1) :
          /\ sink' = sink \o SubSeq(bytes, 1, k)
          /\ writes' = Append(writes, WriteRec(site, SubSeq(bytes, 1, k), FALSE))
          /\ pc' = "idle"
          /\ result' = "Err"
          /\ eidx' = nexteidx
          /\ UNCHANGED <<call, input, pos, hist, base, mapVars>>

skip(nextpc) ==
    /\ pc' = nextpc
    /\ UNCHANGED <<call, input, pos, eidx, sink, writes, result, hist, base, mapVars>>

(***************************************************************************)
(* impl fmt::Display for TermionStr: one action per statement of fmt.      *)
(***************************************************************************)
Cur == input[pos]
HasStyle == Cur.style # None
CurStyle == Cur.style[1]

\* fmt that leaves out the background once it wrote a foreground.
FmtFg_skipBg ==
    /\ pc = "fg"
    /\ IF HasStyle /\ CurStyle.fg # None
       THEN write_str("fg", get_fg(CurStyle.fg[1]), "effects", eidx)
       ELSE skip("bg")

FmtFg ==
    /\ pc = "fg"
    /\ IF HasStyle /\ CurStyle.fg # None
       THEN write_str("fg", get_fg(CurStyle.fg[1]), "bg", eidx)
       ELSE skip("bg")

FmtBg ==
    /\ pc = "bg"
    /\ IF HasStyle /\ CurStyle.bg # None
       THEN write_str("bg", get_bg(CurStyle.bg[1]), "effects", eidx)
       ELSE skip("effects")

FmtEffect ==
    /\ pc = "effects"
    /\ IF HasStyle /\ eidx < Len(EffectsIter(CurStyle.effects))
       THEN write_str("effect", get_effect(EffectsIter(CurStyle.effects)[eidx + 1]),
                      "effects", eidx + 1)
       ELSE skip("text")

\* fmt that returns right after the text.
FmtText_noReset ==
    /\ pc = "text"
    /\ write_str("text", Cur.s, "ret", eidx)

FmtText ==
    /\ pc = "text"
    /\ write_str("text", Cur.s, "reset", eidx)

\* The test of line 106 taken as true for every style.
NeedsReset_always(style) == TRUE

NeedsReset(style) == style.fg # None \/ style.bg # None \/ style.effects # {}

\* fmt whose test for the reset looks at the colours only.
FmtReset_colorsOnly ==
    /\ pc = "reset"
    /\ IF HasStyle /\ (CurStyle.fg # None \/ CurStyle.bg # None)
       THEN write_str("reset", style_Reset, "ret", eidx)
       ELSE skip("ret")

FmtReset ==
    /\ pc = "reset"
    /\ IF HasStyle /\ NeedsReset(CurStyle)
       THEN write_str("reset", style_Reset, "ret", eidx)
       ELSE skip("ret")

\* fmt returned Ok(()): render returns it, render_iter goes on with the loop.
\* The loop of render_iter left after its first item.
FmtOk_firstOnly ==
    /\ pc = "ret"
    /\ pc' = "idle"
    /\ result' = "Ok"
    /\ UNCHANGED <<call, input, pos, eidx, sink, writes, hist, base, mapVars>>

FmtOk ==
    /\ pc = "ret"
    /\ IF call = "render"
       THEN /\ pc' = "idle"
            /\ result' = "Ok"
       ELSE /\ pc' = "next"
            /\ UNCHANGED result
    /\ UNCHANGED <<call, input, pos, eidx, sink, writes, hist, base, mapVars>>

(***************************************************************************)
(* render and render_iter.                                                 *)
(***************************************************************************)
render(items) ==
    /\ pc = "idle"
    /\ \E s \in items :
          /\ call' = "render"
          /\ input' = <<s>>
          /\ pos' = 1
          /\ hist' = Append(hist, s)
    /\ pc' = "fg"
    /\ eidx' = 0
    /\ result' = "none"
    /\ base' = Len(sink)
    /\ UNCHANGED <<sink, writes>>

render_iter(items, n) ==
    /\ pc = "idle"
    /\ \E iter \in SeqsUpTo(items, n) :
          input' = iter
    /\ call' = "render_iter"
    /\ pos' = 0
    /\ pc' = "next"
    /\ eidx' = 0
    /\ result' = "none"
    /\ base' = Len(sink)
    /\ UNCHANGED <<sink, writes, hist>>

\* for s in iter: the next item, or the end of the loop and Ok(()).
IterNext ==
    /\ pc = "next"
    /\ IF pos < Len(input)
       THEN /\ pos' = pos + 1
            /\ hist' = Append(hist, input[pos + 1])
            /\ pc' = "fg"
            /\ eidx' = 0
            /\ UNCHANGED result
       ELSE /\ pc' = "idle"
            /\ result' = "Ok"
            /\ UNCHANGED <<pos, hist, eidx>>
    /\ UNCHANGED <<call, input, sink, writes, base, mapVars>>

(***************************************************************************)
(* Spec: one call of render on a fresh writer, over all of Items.          *)
(* SpecIter: calls of render and render_iter on one writer, MaxItems items *)
(* in all.                                                                 *)
(***************************************************************************)
InitRender ==
    /\ call = "none"
    /\ input = <<>>
    /\ pos = 0
    /\ pc = "idle"
    /\ eidx = 0
    /\ sink = <<>>
    /\ writes = <<>>
    /\ result = "none"
    /\ hist = <<>>
    /\ base = 0

Init ==
    /\ InitRender
    /\ mapArgs = <<>>
    /\ mapOut = <<>>

CallRender ==
    /\ call = "none"
    /\ render(Items)
    /\ UNCHANGED mapVars

Next == CallRender \/ FmtFg \/ FmtBg \/ FmtEffect \/ FmtText \/ FmtReset \/ FmtOk

Spec == Init /\ [][Next]_vars

\* A caller that got an error gives up the writer (expect, ?).
CallRenderOne ==
    /\ result # "Err"
    /\ Len(hist) < MaxItems
    /\ render(IterItems)
    /\ UNCHANGED mapVars

CallRenderIter ==
    /\ result # "Err"
    /\ render_iter(IterItems, MaxItems - Len(hist))
    /\ UNCHANGED mapVars

NextIter ==
    \/ CallRenderOne \/ CallRenderIter \/ IterNext
    \/ FmtFg \/ FmtBg \/ FmtEffect \/ FmtText \/ FmtReset \/ FmtOk

SpecIter == Init /\ [][NextIter]_vars

(***************************************************************************)
(* SpecAnsi: get_ansi_fg and get_ansi_bg applied to two (role, hue, mode)  *)
(* triples.  SpecRgb: get_fg and get_bg applied to two Rgb colours.        *)
(***************************************************************************)
Roles == {"fg", "bg"}
Query(role, color) == [role |-> role, color |-> color]

AnsiQueries == {Query(role, Ansi(c, m)) : role \in Roles, c \in AnsiColor, m \in AnsiMode}
RgbQueries == {Query(role, Rgb(r, g, b)) : role \in Roles, r \in Comps, g \in Comps, b \in Comps}

InitAnsi ==
    /\ InitRender
    /\ mapArgs \in AnsiQueries \X AnsiQueries
    /\ mapOut = <<>>

AnsiOf(q) ==
    IF q.role = "fg" THEN get_ansi_fg(q.color.color, q.color.mode)
    ELSE get_ansi_bg(q.color.color, q.color.mode)

CallGetAnsi ==
    /\ mapOut = <<>>
    /\ mapOut' = <<AnsiOf(mapArgs[1]), AnsiOf(mapArgs[2])>>
    /\ UNCHANGED <<mapArgs, renderVars>>

NextAnsi == CallGetAnsi

SpecAnsi == InitAnsi /\ [][NextAnsi]_vars

InitRgb ==
    /\ InitRender
    /\ mapArgs \in RgbQueries \X RgbQueries
    /\ mapOut = <<>>

ColorOf(q) == IF q.role = "fg" THEN get_fg(q.color) ELSE get_bg(q.color)

CallGetColor ==
    /\ mapOut = <<>>
    /\ mapOut' = <<ColorOf(mapArgs[1]), ColorOf(mapArgs[2])>>
    /\ UNCHANGED <<mapArgs, renderVars>>

NextRgb == CallGetColor

SpecRgb == InitRgb /\ [][NextRgb]_vars

(***************************************************************************)
(* Reading a sequence back: the fields between the semicolons and the      *)
(* number a field of decimal digits stands for.                            *)
(***************************************************************************)
RECURSIVE Fields(_)
Fields(s) ==
    IF \A i \in 1..Len(s) : s[i] # ";"
    THEN <<s>>
    ELSE LET i == CHOOSE j \in 1..Len(s) : s[j] = ";" /\ \A k \in 1..(j - 1) : s[k] # ";"
         IN <<SubSeq(s, 1, i - 1)>> \o Fields(SubSeq(s, i + 1, Len(s)))

IsDigits(s) == Len(s) > 0 /\ \A i \in 1..Len(s) : \E d \in 1..10 : DigitChar[d] = s[i]
DigitVal(ch) == (CHOOSE d \in 1..10 : DigitChar[d] = ch) - 1

RECURSIVE ParseDec(_)
ParseDec(s) ==
    IF Len(s) = 1 THEN DigitVal(s[1])
    ELSE 10 * ParseDec(SubSeq(s, 1, Len(s) - 1)) + DigitVal(s[Len(s)])

\* The query a truecolor sequence ESC [ 38|48 ; 2 ; r ; g ; b m stands for, or <<>>.
DecodeRgb(bytes) ==
    IF Len(bytes) < 4 \/ bytes[1] # ESC \/ bytes[2] # "[" \/ bytes[Len(bytes)] # "m"
    THEN <<>>
    ELSE LET f == Fields(SubSeq(bytes, 3, Len(bytes) - 1))
         IN IF /\ Len(f) = 5
               /\ f[1] \in {<<"3", "8">>, <<"4", "8">>}
               /\ f[2] = <<"2">>
               /\ IsDigits(f[3]) /\ IsDigits(f[4]) /\ IsDigits(f[5])
            THEN <<Query(IF f[1] = <<"3", "8">> THEN "fg" ELSE "bg",
                         Rgb(ParseDec(f[3]), ParseDec(f[4]), ParseDec(f[5])))>>
            ELSE <<>>

\* The literal of the 256 colour dialect for a hue, a mode and a role:
\* ESC [ 38 ; 5 ; n m (fg) or ESC [ 48 ; 5 ; n m (bg), n the hue's number, plus 8 if Light.
HueNumber == [Black |-> 0, Red |-> 1, Green |-> 2, Yellow |-> 3, Blue |-> 4,
              Magenta |-> 5, Cyan |-> 6, White |-> 7]
DialectLiteral(q) ==
    <<ESC, "[">> \o (IF q.role = "fg" THEN <<"3", "8">> ELSE <<"4", "8">>) \o <<";", "5", ";">>
    \o Dec(HueNumber[q.color.color] + (IF q.color.mode = "Light" THEN 8 ELSE 0)) \o <<"m">>

\* C8: for each of the 32 (role, hue, mode) triples get_ansi_fg / get_ansi_bg returns
\* the dialect's literal of that hue, mode and role, and two distinct triples never get
\* the same literal.
C8_AnsiTotalInjective ==
    mapOut # <<>> =>
        /\ \A i \in 1..2 : mapOut[i] = DialectLiteral(mapArgs[i])
        /\ (mapArgs[1] # mapArgs[2] => mapOut[1] # mapOut[2])

C8_Witness ==
    /\ mapOut # <<>>
    /\ mapArgs[1] = Query("fg", Ansi("Red", "Light"))
    /\ mapArgs[2] = Query("fg", Ansi("Red", "Dark"))
    /\ mapOut[1] # mapOut[2]

\* C9: the sequence of an Rgb colour holds r, g and b in decimal without loss: the
\* role and the triple are read back from it, distinct triples of one role give
\* distinct sequences, and fg and bg of one triple differ.
C9_RgbRoundTrip ==
    mapOut # <<>> =>
        /\ \A i \in 1..2 : DecodeRgb(mapOut[i]) = <<mapArgs[i]>>
        /\ (mapArgs[1] # mapArgs[2] => mapOut[1] # mapOut[2])

C9_Witness ==
    /\ mapOut # <<>>
    /\ mapArgs[1] = Query("fg", Rgb(255, 0, 9))
    /\ mapArgs[2] = Query("bg", Rgb(255, 0, 9))
    /\ mapOut[1] = <<ESC, "[", "3", "8", ";", "2", ";", "2", "5", "5", ";", "0", ";", "9", "m">>
    /\ mapOut[2] # mapOut[1]

(***************************************************************************)
(* What one styled string is to write, piece by piece.                     *)
(***************************************************************************)
Piece(site, bytes) == [site |-> site, bytes |-> bytes]

Formatted(item) ==
    /\ item.style # None
    /\ (item.style[1].fg # None \/ item.style[1].bg # None \/ item.style[1].effects # {})

EffectPieces(effects) ==
    (IF "Bold" \in effects THEN <<Piece("effect", <<ESC, "[", "1", "m">>)>> ELSE <<>>)
    \o (IF "Italic" \in effects THEN <<Piece("effect", <<ESC, "[", "3", "m">>)>> ELSE <<>>)
    \o (IF "Underline" \in effects THEN <<Piece("effect", <<ESC, "[", "4", "m">>)>> ELSE <<>>)

ExpectedPieces(item) ==
    (IF item.style # None
     THEN (IF item.style[1].fg # None
           THEN <<Piece("fg", get_fg(item.style[1].fg[1]))>> ELSE <<>>)
          \o (IF item.style[1].bg # None
              THEN <<Piece("bg", get_bg(item.style[1].bg[1]))>> ELSE <<>>)
          \o EffectPieces(item.style[1].effects)
     ELSE <<>>)
    \o <<Piece("text", item.s)>>
    \o (IF Formatted(item) THEN <<Piece("reset", <<ESC, "[", "m">>)>> ELSE <<>>)

BytesOf(pieces) == Flatten([i \in 1..Len(pieces) |-> pieces[i].bytes])
RenderAlone(item) == BytesOf(ExpectedPieces(item))
ConcatRender(items) == Flatten([i \in 1..Len(items) |-> RenderAlone(items[i])])

Written == [i \in 1..Len(writes) |-> Piece(writes[i].site, writes[i].bytes)]
AllOk == \A i \in 1..Len(writes) : writes[i].ok
CountSite(site) == Cardinality({i \in 1..Len(writes) : writes[i].site = site})
SinkSince == SubSeq(sink, base + 1, Len(sink))
IsPrefix(p, s) == Len(p) <= Len(s) /\ SubSeq(s, 1, Len(p)) = p

\* C1: render of a string with no formatting (no style, or a style with no fg, no bg
\* and no effect) writes the raw string and nothing else: no activation sequence
\* before it, no reset after it.
C1_PlainIsRaw ==
    (call = "render" /\ ~Formatted(input[1])) =>
        /\ \A i \in 1..Len(writes) : writes[i].site = "text"
        /\ (result = "Ok" => sink = input[1].s /\ Len(writes) = 1)

C1_Witness ==
    /\ result = "Ok"
    /\ input[1] = StyledStr(<<"a", " ", "b">>, Some(Style(None, None, {})))
    /\ sink = <<"a", " ", "b">>

\* C2: a successful render wrote, in this order and nothing else: the fg sequence if
\* fg is set, the bg sequence if bg is set, one sequence per effect of the set, the raw
\* string unchanged, the reset if formatting was applied; with fg alone that is
\* fg sequence, raw string, reset.
C2_PieceOrder ==
    (call = "render" /\ result = "Ok") =>
        /\ Written = ExpectedPieces(input[1])
        /\ sink = RenderAlone(input[1])
        /\ LET st == input[1].style
           IN (st # None /\ st[1].fg # None /\ st[1].bg = None /\ st[1].effects = {}) =>
                 sink = get_fg(st[1].fg[1]) \o input[1].s \o style_Reset

C2_Witness ==
    /\ result = "Ok"
    /\ input[1] = StyledStr(<<"a">>, Some(Style(Some(Ansi("Red", "Dark")), None, {})))
    /\ sink = <<ESC, "[", "3", "8", ";", "5", ";", "1", "m", "a", ESC, "[", "m">>

\* C3: a successful render wrote the reset once, as its last write, if the style is
\* present and fg, bg or an effect is set, and never otherwise, however many
\* attributes were active.
C3_OneReset ==
    (call = "render" /\ result = "Ok") =>
        IF Formatted(input[1])
        THEN /\ CountSite("reset") = 1
             /\ writes[Len(writes)].site = "reset"
             /\ writes[Len(writes)].bytes = style_Reset
        ELSE CountSite("reset") = 0

C3_Witness ==
    /\ result = "Ok"
    /\ input[1].style # None
    /\ input[1].style[1].fg # None
    /\ input[1].style[1].bg # None
    /\ input[1].style[1].effects = Effect
    /\ CountSite("reset") = 1

\* C4: render of a string with effects and no colour writes the sequence of each
\* effect of the set once, Bold before Italic before Underline, then the raw string,
\* then one reset.
C4_EffectsOnly ==
    (/\ call = "render"
     /\ result = "Ok"
     /\ input[1].style # None
     /\ input[1].style[1].fg = None
     /\ input[1].style[1].bg = None
     /\ input[1].style[1].effects # {}) =>
        /\ sink = BytesOf(EffectPieces(input[1].style[1].effects)) \o input[1].s \o style_Reset
        /\ CountSite("effect") = Cardinality(input[1].style[1].effects)
        /\ CountSite("reset") = 1

C4_Witness ==
    /\ result = "Ok"
    /\ input[1] = StyledStr(<<"a">>, Some(Style(None, None, {"Underline", "Bold"})))
    /\ sink = <<ESC, "[", "1", "m", ESC, "[", "4", "m", "a", ESC, "[", "m">>

\* C7: a write that fails ends the render there: render returns the error, the failed
\* write is the last one, the pieces before it are in the sink as written, none is
\* written twice; render returns Ok only when every piece was written.
C7_AbortAtFailure ==
    /\ (call = "render" /\ result = "Err") =>
          LET n == Len(writes)
              exp == ExpectedPieces(input[1])
          IN /\ n >= 1
             /\ n <= Len(exp)
             /\ pc = "idle"
             /\ ~writes[n].ok
             /\ \A i \in 1..(n - 1) : writes[i].ok /\ Written[i] = exp[i]
             /\ writes[n].site = exp[n].site
             /\ IsPrefix(writes[n].bytes, exp[n].bytes)
             /\ sink = BytesOf(Written)
    /\ (call = "render" /\ result = "Ok") => (AllOk /\ Written = ExpectedPieces(input[1]))
    /\ (call = "render" /\ result = "none") => AllOk

C7_Witness ==
    /\ result = "Err"
    /\ Len(writes) = 3
    /\ writes[3].site = "text"
    /\ ~writes[3].ok
    /\ Formatted(input[1])
    /\ CountSite("reset") = 0

\* C5: with a writer that never fails, render_iter wrote the concatenation, in input
\* order, of what render writes for each item alone: whenever it is about to take the
\* next item everything of the items taken before is in the sink, and it returns Ok
\* after the last item.
C5_IterIsConcat ==
    /\ (call = "render_iter" /\ pc = "next") =>
          SinkSince = ConcatRender(SubSeq(input, 1, pos))
    /\ (call = "render_iter" /\ result = "Ok") =>
          /\ pos = Len(input)
          /\ SinkSince = ConcatRender(input)

C5_Witness ==
    /\ call = "render_iter"
    /\ result = "Ok"
    /\ input = <<StyledStr(<<"a">>, Some(Style(None, None, {"Bold"}))),
                 StyledStr(<<" ">>, None),
                 StyledStr(<<"b">>, Some(Style(None, None, {"Italic"})))>>
    /\ sink = <<ESC, "[", "1", "m", "a", ESC, "[", "m", " ",
                ESC, "[", "3", "m", "b", ESC, "[", "m">>

\* C6: when the writer fails during item N of render_iter, render_iter returns the
\* error and stops: N is the last item taken, the failed write is the last write, the
\* sink holds the renders of items 1..N-1 followed by no more than a part of item N.
C6_IterStopsAtError ==
    (call = "render_iter" /\ result = "Err") =>
        /\ pc = "idle"
        /\ pos >= 1
        /\ hist[Len(hist)] = input[pos]
        /\ ~writes[Len(writes)].ok
        /\ writes[Len(writes)].item = Len(hist)
        /\ \A i \in 1..(Len(writes) - 1) : writes[i].ok
        /\ IsPrefix(ConcatRender(SubSeq(input, 1, pos - 1)), SinkSince)
        /\ IsPrefix(SinkSince, ConcatRender(SubSeq(input, 1, pos)))

C6_Witness ==
    /\ call = "render_iter"
    /\ result = "Err"
    /\ Len(input) = 3
    /\ pos = 2
    /\ Formatted(input[1])
    /\ SinkSince = RenderAlone(input[1]) \o <<ESC, "[">>

(***************************************************************************)
(* A terminal reading the sink: ESC [ parameters m sets an attribute, with *)
(* no parameter (or 0) it clears them all; every other byte is displayed.  *)
(***************************************************************************)
NoFormat == [fg |-> None, bg |-> None, effects |-> {}]

IsParam(ch) == ch = ";" \/ \E d \in 1..10 : DigitChar[d] = ch

SGR(st, seq) ==
    LET params == SubSeq(seq, 3, Len(seq) - 1)
    IN IF params = <<>> \/ params = <<"0">> THEN NoFormat
       ELSE IF params = <<"1">> THEN [st EXCEPT !.effects = @ \cup {"Bold"}]
       ELSE IF params = <<"3">> THEN [st EXCEPT !.effects = @ \cup {"Italic"}]
       ELSE IF params = <<"4">> THEN [st EXCEPT !.effects = @ \cup {"Underline"}]
       ELSE IF IsPrefix(<<"3", "8", ";">>, params) THEN [st EXCEPT !.fg = Some(seq)]
       ELSE IF IsPrefix(<<"4", "8", ";">>, params) THEN [st EXCEPT !.bg = Some(seq)]
       ELSE st

RECURSIVE Terminal(_, _)
Terminal(bytes, st) ==
    IF bytes = <<>> THEN st
    ELSE IF bytes[1] = ESC /\ Len(bytes) >= 2 /\ bytes[2] = "["
    THEN IF \A j \in 3..Len(bytes) : IsParam(bytes[j])
         THEN st
         ELSE LET j == CHOOSE k \in 3..Len(bytes) :
                           ~IsParam(bytes[k]) /\ \A l \in 3..(k - 1) : IsParam(bytes[l])
              IN Terminal(SubSeq(bytes, j + 1, Len(bytes)),
                          IF bytes[j] = "m" THEN SGR(st, SubSeq(bytes, 1, j)) ELSE st)
    ELSE Terminal(Tail(bytes), st)

\* The attributes a styled string asks for.
Attributes(item) ==
    IF item.style = None THEN NoFormat
    ELSE [fg |-> IF item.style[1].fg # None THEN Some(get_fg(item.style[1].fg[1])) ELSE None,
          bg |-> IF item.style[1].bg # None THEN Some(get_bg(item.style[1].bg[1])) ELSE None,
          effects |-> item.style[1].effects]

NoEscInRaw == \A i \in 1..Len(hist) : \A k \in 1..Len(hist[i].s) : hist[i].s[k] # ESC

LeakFree ==
    /\ (pc \in {"idle", "next", "ret"} => Terminal(sink, NoFormat) = NoFormat)
    /\ (pc = "text" => Terminal(sink, NoFormat) = Attributes(Cur))

\* C10 as stated: while every write succeeded, the terminal has no active formatting
\* between items and shows each raw text under that item's own attributes.
C10_NoLeak == AllOk => LeakFree

\* C10, amended: the same for items whose raw text holds no escape byte.
C10_NoLeakPlainText == (AllOk /\ NoEscInRaw) => LeakFree

C10_Witness ==
    /\ AllOk
    /\ NoEscInRaw
    /\ Len(hist) = 2
    /\ Attributes(hist[1]).effects = {"Italic", "Underline"}
    /\ Attributes(hist[1]).fg # None
    /\ hist[2] = StyledStr(<<"a">>, Some(Style(None, None, {"Bold"})))
    /\ pc = "text"
    /\ Terminal(sink, NoFormat) = [fg |-> None, bg |-> None, effects |-> {"Bold"}]

====
